---- MODULE Spec2Model ----
(***************************************************************************)
(* Traffic-signal controller for a two-road intersection with a pedestrian *)
(* crossing (ESP32 sketch).  Two builds of the sketch exist:                *)
(*   "main" - src/main.cpp:          counting gated by isNsRed/isEwRed,     *)
(*                                   four-tier green time, 50 samples/s     *)
(*   "lcd"  - src/main_withlcd.cpp:  counting clamped at MAX_TRAFFIC_COUNT, *)
(*                                   three-tier green time, 1 sample/s      *)
(* The variable `variant` records which build runs; it never changes.      *)
(*                                                                         *)
(* Granularity: every digitalWrite is one step (the output register is     *)
(* observable between two writes), every readButtons call is one step.     *)
(***************************************************************************)
EXTENDS Integers, Sequences, FiniteSets, TLC

\* ---------------------------------------------------------------- bounds
\* The counters of main.cpp are unbounded ints: presses that would take a
\* counter above MaxCount are not offered by the environment.
MaxCount == 6
\* waitOneSecondWithButtons samples the buttons 50 times a second
\* (src/main.cpp:228); the model samples SamplesPerSecond times.
SamplesPerSecond == 2
\* Largest counter value the green-time functions are tabulated for.
MaxArg == 20

\* ------------------------------------------------------- program constants
HIGH == TRUE
LOW  == FALSE

YELLOW_TIME_SEC   == 3
PED_TIME_SEC      == 8
BASE_GREEN_SEC    == 10
MAX_TRAFFIC_COUNT == 10

Pins == {"NS_RED", "NS_YELLOW", "NS_GREEN",
         "EW_RED", "EW_YELLOW", "EW_GREEN",
         "PED_RED", "PED_GREEN"}

Phase == {"PHASE_NS_GREEN", "PHASE_NS_YELLOW", "PHASE_EW_GREEN",
          "PHASE_EW_YELLOW", "PHASE_PED_GREEN"}

Variants == {"main", "lcd"}

VARIABLES
  variant,          \* which build runs
  pc,               \* position inside the running function
  lp,               \* index of the running call in loop()
  wq,               \* digitalWrite calls of the running helper still to do
  remaining,        \* seconds left in the running dwell (loop counter)
  i,                \* loop counter of waitOneSecondWithButtons
  out,              \* output register: pin -> level
  currentPhase,     \* main.cpp only
  trafficCountNS,
  trafficCountEW,
  pedRequest,
  lastNsBtnState,
  lastEwBtnState,
  lastPedBtnState

\* History variables: they record what has happened and steer nothing.
VARIABLES
  hist,             \* the last two phases entered, oldest first
  redSeen,          \* an all-vehicle-red output state has occurred since a
                    \* green, yellow or pedestrian-green output last went on
  evG,              \* pedestrian press events sampled in the latest NS-green
                    \* dwell (2 = two or more)
  evAfter,          \* a pedestrian press event was sampled after that dwell
  pedRuns,          \* Pedestrian phases entered since NS-green was entered
                    \* (2 = two or more)
  evIP,             \* pedestrian press events sampled since the last
                    \* insertion point (2 = two or more)
  evVeh,            \* those of evIP sampled during a vehicle phase's dwell
  rec,              \* which history is recorded besides hist, redSeen and
                    \* raw: "none", "ped" (evG, evAfter, pedRuns, evIP,
                    \* evVeh), "dwell" (ticks, entry) or "press" (nsEv,
                    \* ewEv); never changes
  ret               \* values returned by the green-time functions when
                    \* they are applied on their own (ComputeNs, ComputeEw)

VARIABLES
  raw,              \* the levels <<ns, ew, ped>> read by the latest readButtons
  ticks,            \* seconds completed in the running dwell
  entry,            \* the axis's counter when its running green was entered
  nsEv,             \* NS press events sampled in a phase other than NS-green
                    \* and NS-yellow since the NS-green dwell last ended
  ewEv              \* the same for EW

prog == <<variant, pc, lp, wq, remaining, i, out, currentPhase,
          trafficCountNS, trafficCountEW, pedRequest,
          lastNsBtnState, lastEwBtnState, lastPedBtnState>>

ghost == <<hist, redSeen, evG, evAfter, pedRuns, evIP, evVeh, rec, ret>>

ghost2 == <<raw, ticks, entry, nsEv, ewEv>>

vars == <<prog, ghost, ghost2>>

\* ------------------------------------------------------------ LED helpers
\* A helper is the sequence of digitalWrite(pin, level) calls it makes.
W(pin, level) == <<pin, level>>

setAllVehicleRed ==
  << W("NS_RED", HIGH), W("NS_YELLOW", LOW), W("NS_GREEN", LOW),
     W("EW_RED", HIGH), W("EW_YELLOW", LOW), W("EW_GREEN", LOW) >>

setNsGreenState ==
  setAllVehicleRed \o << W("NS_RED", LOW), W("NS_GREEN", HIGH) >>

\* Sensitivity check: the yellow helper without the all-red baseline.
setNsYellowStateNoBaseline ==
  << W("NS_RED", LOW), W("NS_YELLOW", HIGH) >>

setNsYellowState ==
  setAllVehicleRed \o << W("NS_RED", LOW), W("NS_YELLOW", HIGH) >>

\* Sensitivity check: the green helper without the all-red baseline.
setEwGreenStateNoBaseline ==
  << W("EW_RED", LOW), W("EW_GREEN", HIGH) >>

setEwGreenState ==
  setAllVehicleRed \o << W("EW_RED", LOW), W("EW_GREEN", HIGH) >>

setEwYellowState ==
  setAllVehicleRed \o << W("EW_RED", LOW), W("EW_YELLOW", HIGH) >>

\* Sensitivity check: the pedestrian helper without the all-red baseline.
setPedestrianGreenStateNoBaseline ==
  << W("PED_RED", LOW), W("PED_GREEN", HIGH) >>

setPedestrianGreenState ==
  setAllVehicleRed \o << W("PED_RED", LOW), W("PED_GREEN", HIGH) >>

\* setup(): "initial safe state"
setupWrites ==
  setAllVehicleRed \o << W("PED_RED", HIGH), W("PED_GREEN", LOW) >>

\* Sensitivity check: the pedestrian head is left as it is after the dwell.
pedestrianEndWritesVehicleOnly == setAllVehicleRed

\* phasePedestrianIfRequested(): writes after the dwell
pedestrianEndWrites ==
  setAllVehicleRed \o << W("PED_RED", HIGH), W("PED_GREEN", LOW) >>

\* --------------------------------------------------- green time computation
\* Sensitivity check: the NS thresholds compared with > instead of >=.
computeNsGreenSecondsStrict ==
  LET extra == IF trafficCountNS > 15 THEN 30
               ELSE IF trafficCountNS > 10 THEN 20
               ELSE IF trafficCountNS > 5 THEN 10
               ELSE 0
  IN  BASE_GREEN_SEC + extra

\* main.cpp
computeNsGreenSeconds ==
  LET extra == IF trafficCountNS >= 15 THEN 30
               ELSE IF trafficCountNS >= 10 THEN 20
               ELSE IF trafficCountNS >= 5 THEN 10
               ELSE 0
  IN  BASE_GREEN_SEC + extra

\* Sensitivity check: the EW thresholds compared with > instead of >=.
computeEwGreenSecondsStrict ==
  LET extra == IF trafficCountEW > 15 THEN 30
               ELSE IF trafficCountEW > 10 THEN 20
               ELSE IF trafficCountEW > 5 THEN 10
               ELSE 0
  IN  BASE_GREEN_SEC + extra

computeEwGreenSeconds ==
  LET extra == IF trafficCountEW >= 15 THEN 30
               ELSE IF trafficCountEW >= 10 THEN 20
               ELSE IF trafficCountEW >= 5 THEN 10
               ELSE 0
  IN  BASE_GREEN_SEC + extra

\* main_withlcd.cpp
computeNsGreenSecondsLcd ==
  IF trafficCountNS <= 3 THEN 10
  ELSE IF trafficCountNS <= 7 THEN 20
  ELSE 30

computeEwGreenSecondsLcd ==
  IF trafficCountEW <= 3 THEN 10
  ELSE IF trafficCountEW <= 7 THEN 20
  ELSE 30

\* --------------------------------------------------------------- main.cpp
\* Sensitivity checks: the phase is not consulted; the Pedestrian phase is
\* forgotten.
isNsRedAlways == TRUE

isNsRedNoPedestrian ==
  currentPhase \in {"PHASE_EW_GREEN", "PHASE_EW_YELLOW"}

isNsRed ==
  currentPhase \in {"PHASE_EW_GREEN", "PHASE_EW_YELLOW", "PHASE_PED_GREEN"}

isEwRed ==
  currentPhase \in {"PHASE_NS_GREEN", "PHASE_NS_YELLOW", "PHASE_PED_GREEN"}

\* ------------------------------------------------------------------- loop
\* Sensitivity checks: the pedestrian call placed after the green phase,
\* and a cycle that never reaches the EW phases.
loopPedAfterGreen ==
  << "phaseNsGreen", "phasePedestrianIfRequested", "phaseNsYellow",
     "phaseEwGreen", "phasePedestrianIfRequested", "phaseEwYellow" >>

loopNsOnly ==
  << "phaseNsGreen", "phaseNsYellow", "phasePedestrianIfRequested",
     "phaseNsGreen", "phaseNsYellow", "phasePedestrianIfRequested" >>

loop == << "phaseNsGreen", "phaseNsYellow", "phasePedestrianIfRequested",
           "phaseEwGreen", "phaseEwYellow", "phasePedestrianIfRequested" >>

\* the function loop() is running
fn == loop[lp]

\* samples per one-second tick of a dwell
samples == IF variant = "main" THEN SamplesPerSecond ELSE 1

\* ------------------------------------------------------------------- Init
\* The state after the globals are constructed, before setup() runs.
Start ==
  /\ pc = "setup"
  /\ lp = 1
  /\ wq = << >>
  /\ remaining = 0
  /\ i = 0
  /\ out = [p \in Pins |-> LOW]
  /\ currentPhase = "PHASE_NS_GREEN"
  /\ trafficCountNS = 0
  /\ trafficCountEW = 0
  /\ pedRequest = FALSE
  /\ lastNsBtnState = HIGH
  /\ lastEwBtnState = HIGH
  /\ lastPedBtnState = HIGH
  /\ hist = << >>
  /\ redSeen = FALSE
  /\ evG = 0
  /\ evAfter = FALSE
  /\ pedRuns = 0
  /\ evIP = 0
  /\ evVeh = 0
  /\ ret = << >>
  /\ raw = <<HIGH, HIGH, HIGH>>
  /\ ticks = 0
  /\ entry = 0
  /\ nsEv = 0
  /\ ewEv = 0

Init ==
  /\ Start
  /\ variant \in Variants
  /\ rec = "none"

\* ------------------------------------------------------------ output state
Assertive == {"NS_GREEN", "NS_YELLOW", "EW_GREEN", "EW_YELLOW", "PED_GREEN"}

AllVehicleRed(o) ==
  /\ o["NS_RED"] /\ o["EW_RED"]
  /\ ~o["NS_GREEN"] /\ ~o["NS_YELLOW"] /\ ~o["EW_GREEN"] /\ ~o["EW_YELLOW"]

cap2(n) == IF n >= 2 THEN 2 ELSE n

\* the phase entered last
active == IF hist = << >> THEN "none" ELSE hist[Len(hist)]

\* the last two of the phases entered, after `p` is entered
Entered(p) == IF Len(hist) < 2 THEN Append(hist, p) ELSE <<hist[2], p>>

\* return from the running phase function to loop()
Return ==
  /\ pc' = "call"
  /\ lp' = (lp % Len(loop)) + 1

\* ------------------------------------------------------------------ setup
\* setup(): all vehicle signals red, pedestrian red.
Setup ==
  /\ pc = "setup"
  /\ wq' = setupWrites
  /\ pc' = "call"
  /\ UNCHANGED <<variant, lp, remaining, i, out, currentPhase,
                 trafficCountNS, trafficCountEW, pedRequest,
                 lastNsBtnState, lastEwBtnState, lastPedBtnState>>
  /\ UNCHANGED ghost
  /\ UNCHANGED ghost2

\* One digitalWrite of the running helper.
DigitalWrite ==
  /\ wq # << >>
  /\ out' = [out EXCEPT ![Head(wq)[1]] = Head(wq)[2]]
  /\ wq' = Tail(wq)
  /\ redSeen' = (AllVehicleRed(out')
                 \/ (redSeen /\ ~(\E p \in Assertive : ~out[p] /\ out'[p])))
  /\ UNCHANGED <<variant, pc, lp, remaining, i, currentPhase,
                 trafficCountNS, trafficCountEW, pedRequest,
                 lastNsBtnState, lastEwBtnState, lastPedBtnState>>
  /\ UNCHANGED <<hist, evG, evAfter, pedRuns, evIP, evVeh, rec, ret>>
  /\ UNCHANGED ghost2

\* --------------------------------------------------------- button handling
\* Sensitivity check: main_withlcd.cpp without the MAX_TRAFFIC_COUNT test.
countAfterPressNoClamp(count, axisRed) ==
  IF variant = "main"
    THEN IF axisRed THEN count + 1 ELSE count
    ELSE count + 1

\* The counter after a press event of its button (readButtons).
countAfterPress(count, axisRed) ==
  IF variant = "main"
    THEN IF axisRed THEN count + 1 ELSE count
    ELSE IF count < MAX_TRAFFIC_COUNT THEN count + 1 ELSE count

\* readButtons(): "pedRequest = true" on a pedestrian press event
\* Sensitivity check: the press toggles the latch.
pedRequestToggled == ~pedRequest

pedRequestAfterPress == TRUE

\* phasePedestrianIfRequested(): "if (!pedRequest) return;"
\* Sensitivity checks: the latch is not consulted.
skipPedestrianNever == FALSE

skipPedestrianAlways == TRUE

skipPedestrian == ~pedRequest

\* phasePedestrianIfRequested(): "pedRequest = false" after the phase
\* Sensitivity check: the latch is not cleared.
pedRequestKept == pedRequest

pedRequestAfterPhase == FALSE

\* Sensitivity check: level detection instead of edge detection.
pressedLevel(level, last) == level = LOW

\* Sensitivity check: a pending request cuts the dwell short.
nextRemainingPreempted(lastOfSecond) ==
  IF lastOfSecond THEN (IF pedRequest THEN 0 ELSE remaining - 1) ELSE remaining

\* the dwell loop's counter after a readButtons call: one less when the
\* call was the last of its second
nextRemaining(lastOfSecond) ==
  IF lastOfSecond THEN remaining - 1 ELSE remaining

\* "just pressed": the sample reads LOW and the previous one read HIGH
pressed(level, last) == level = LOW /\ last = HIGH

\* readButtons() with the three raw levels read, as called from the dwell
\* loops; the last call of a second also ends that iteration of the dwell
\* loop (and, in main.cpp's yellow phases, starts the next one, which
\* calls the yellow helper again).
ReadButtons(nsBtn, ewBtn, pedBtn) ==
  LET lastOfSecond == (i + 1 = samples)
      again == lastOfSecond /\ nextRemaining(lastOfSecond) > 0
               /\ variant = "main"
      pedEv == pressed(pedBtn, lastPedBtnState)
      vehicle == fn # "phasePedestrianIfRequested"
      pedRec == pedEv /\ rec = "ped"
      nsRec == rec = "press" /\ nsBtn = LOW /\ lastNsBtnState = HIGH
               /\ active \notin {"PHASE_NS_GREEN", "PHASE_NS_YELLOW"}
      ewRec == rec = "press" /\ ewBtn = LOW /\ lastEwBtnState = HIGH
               /\ active \notin {"PHASE_EW_GREEN", "PHASE_EW_YELLOW"}
  IN
  /\ pc = "dwell"
  /\ wq = << >>
  /\ remaining > 0
  /\ trafficCountNS' = IF pressed(nsBtn, lastNsBtnState)
                          THEN countAfterPress(trafficCountNS, isNsRed)
                          ELSE trafficCountNS
  /\ lastNsBtnState' = nsBtn
  /\ trafficCountEW' = IF pressed(ewBtn, lastEwBtnState)
                          THEN countAfterPress(trafficCountEW, isEwRed)
                          ELSE trafficCountEW
  /\ lastEwBtnState' = ewBtn
  /\ pedRequest' = IF pedEv THEN pedRequestAfterPress ELSE pedRequest
  /\ lastPedBtnState' = pedBtn
  /\ variant = "main" => (trafficCountNS' <= MaxCount /\ trafficCountEW' <= MaxCount)
  /\ i' = IF lastOfSecond THEN 0 ELSE i + 1
  /\ remaining' = nextRemaining(lastOfSecond)
  /\ wq' = IF again /\ fn = "phaseNsYellow" THEN setNsYellowState
            ELSE IF again /\ fn = "phaseEwYellow" THEN setEwYellowState
            ELSE << >>
  /\ UNCHANGED <<variant, pc, lp, out, currentPhase>>
  /\ evG' = IF pedRec /\ fn = "phaseNsGreen" THEN cap2(evG + 1) ELSE evG
  /\ evAfter' = (evAfter \/ (pedRec /\ fn # "phaseNsGreen"))
  /\ evIP' = IF pedRec THEN cap2(evIP + 1) ELSE evIP
  /\ evVeh' = IF pedRec /\ vehicle THEN cap2(evVeh + 1) ELSE evVeh
  /\ UNCHANGED <<hist, redSeen, pedRuns, rec, ret>>
  /\ raw' = <<nsBtn, ewBtn, pedBtn>>
  /\ ticks' = IF rec = "dwell" /\ lastOfSecond THEN ticks + 1 ELSE ticks
  /\ nsEv' = IF nsRec THEN nsEv + 1 ELSE nsEv
  /\ ewEv' = IF ewRec THEN ewEv + 1 ELSE ewEv
  /\ UNCHANGED entry

Sample == \E nsBtn, ewBtn, pedBtn \in {LOW, HIGH} : ReadButtons(nsBtn, ewBtn, pedBtn)

\* ---------------------------------------------------------- phase functions
\* phaseNsGreen() up to its dwell loop
PhaseNsGreen ==
  /\ pc = "call" /\ wq = << >> /\ fn = "phaseNsGreen"
  /\ currentPhase' = IF variant = "main" THEN "PHASE_NS_GREEN" ELSE currentPhase
  /\ remaining' = IF variant = "main" THEN computeNsGreenSeconds
                                      ELSE computeNsGreenSecondsLcd
  /\ wq' = setNsGreenState
  /\ pc' = "dwell"
  /\ i' = 0
  /\ UNCHANGED <<variant, lp, out, trafficCountNS, trafficCountEW, pedRequest,
                 lastNsBtnState, lastEwBtnState, lastPedBtnState>>
  /\ hist' = Entered("PHASE_NS_GREEN")
  /\ evG' = 0 /\ evAfter' = FALSE /\ pedRuns' = 0
  /\ UNCHANGED <<redSeen, evIP, evVeh, rec, ret>>
  /\ ticks' = 0
  /\ entry' = IF rec = "dwell" THEN trafficCountNS ELSE entry
  /\ UNCHANGED <<raw, nsEv, ewEv>>

\* phaseNsGreen() after its dwell loop: "reset after serving"
PhaseNsGreenEnd ==
  /\ pc = "dwell" /\ wq = << >> /\ fn = "phaseNsGreen" /\ remaining = 0
  /\ trafficCountNS' = 0
  /\ Return
  /\ UNCHANGED <<variant, wq, remaining, i, out, currentPhase, trafficCountEW,
                 pedRequest, lastNsBtnState, lastEwBtnState, lastPedBtnState>>
  /\ UNCHANGED ghost
  /\ nsEv' = 0 /\ entry' = 0
  /\ UNCHANGED <<raw, ticks, ewEv>>

PhaseNsYellow ==
  /\ pc = "call" /\ wq = << >> /\ fn = "phaseNsYellow"
  /\ currentPhase' = IF variant = "main" THEN "PHASE_NS_YELLOW" ELSE currentPhase
  /\ remaining' = YELLOW_TIME_SEC
  /\ wq' = setNsYellowState
  /\ pc' = "dwell"
  /\ i' = 0
  /\ UNCHANGED <<variant, lp, out, trafficCountNS, trafficCountEW, pedRequest,
                 lastNsBtnState, lastEwBtnState, lastPedBtnState>>
  /\ hist' = Entered("PHASE_NS_YELLOW")
  /\ UNCHANGED <<redSeen, evG, evAfter, pedRuns, evIP, evVeh, rec, ret>>
  /\ ticks' = 0
  /\ UNCHANGED <<raw, entry, nsEv, ewEv>>

PhaseNsYellowEnd ==
  /\ pc = "dwell" /\ wq = << >> /\ fn = "phaseNsYellow" /\ remaining = 0
  /\ Return
  /\ UNCHANGED <<variant, wq, remaining, i, out, currentPhase,
                 trafficCountNS, trafficCountEW, pedRequest,
                 lastNsBtnState, lastEwBtnState, lastPedBtnState>>
  /\ UNCHANGED ghost
  /\ UNCHANGED ghost2

PhaseEwGreen ==
  /\ pc = "call" /\ wq = << >> /\ fn = "phaseEwGreen"
  /\ currentPhase' = IF variant = "main" THEN "PHASE_EW_GREEN" ELSE currentPhase
  /\ remaining' = IF variant = "main" THEN computeEwGreenSeconds
                                      ELSE computeEwGreenSecondsLcd
  /\ wq' = setEwGreenState
  /\ pc' = "dwell"
  /\ i' = 0
  /\ UNCHANGED <<variant, lp, out, trafficCountNS, trafficCountEW, pedRequest,
                 lastNsBtnState, lastEwBtnState, lastPedBtnState>>
  /\ hist' = Entered("PHASE_EW_GREEN")
  /\ UNCHANGED <<redSeen, evG, evAfter, pedRuns, evIP, evVeh, rec, ret>>
  /\ ticks' = 0
  /\ entry' = IF rec = "dwell" THEN trafficCountEW ELSE entry
  /\ UNCHANGED <<raw, nsEv, ewEv>>

\* Sensitivity check: the end of EW-green resets both counters.
PhaseEwGreenEndResetsBoth ==
  /\ pc = "dwell" /\ wq = << >> /\ fn = "phaseEwGreen" /\ remaining = 0
  /\ trafficCountEW' = 0
  /\ trafficCountNS' = 0
  /\ Return
  /\ UNCHANGED <<variant, wq, remaining, i, out, currentPhase,
                 pedRequest, lastNsBtnState, lastEwBtnState, lastPedBtnState>>
  /\ UNCHANGED ghost
  /\ ewEv' = 0 /\ entry' = 0
  /\ UNCHANGED <<raw, ticks, nsEv>>

PhaseEwGreenEnd ==
  /\ pc = "dwell" /\ wq = << >> /\ fn = "phaseEwGreen" /\ remaining = 0
  /\ trafficCountEW' = 0
  /\ Return
  /\ UNCHANGED <<variant, wq, remaining, i, out, currentPhase, trafficCountNS,
                 pedRequest, lastNsBtnState, lastEwBtnState, lastPedBtnState>>
  /\ UNCHANGED ghost
  /\ ewEv' = 0 /\ entry' = 0
  /\ UNCHANGED <<raw, ticks, nsEv>>

PhaseEwYellow ==
  /\ pc = "call" /\ wq = << >> /\ fn = "phaseEwYellow"
  /\ currentPhase' = IF variant = "main" THEN "PHASE_EW_YELLOW" ELSE currentPhase
  /\ remaining' = YELLOW_TIME_SEC
  /\ wq' = setEwYellowState
  /\ pc' = "dwell"
  /\ i' = 0
  /\ UNCHANGED <<variant, lp, out, trafficCountNS, trafficCountEW, pedRequest,
                 lastNsBtnState, lastEwBtnState, lastPedBtnState>>
  /\ hist' = Entered("PHASE_EW_YELLOW")
  /\ UNCHANGED <<redSeen, evG, evAfter, pedRuns, evIP, evVeh, rec, ret>>
  /\ ticks' = 0
  /\ UNCHANGED <<raw, entry, nsEv, ewEv>>

PhaseEwYellowEnd ==
  /\ pc = "dwell" /\ wq = << >> /\ fn = "phaseEwYellow" /\ remaining = 0
  /\ Return
  /\ UNCHANGED <<variant, wq, remaining, i, out, currentPhase,
                 trafficCountNS, trafficCountEW, pedRequest,
                 lastNsBtnState, lastEwBtnState, lastPedBtnState>>
  /\ UNCHANGED ghost
  /\ UNCHANGED ghost2

\* phasePedestrianIfRequested() up to its dwell loop: the insertion point
PhasePedestrianIfRequested ==
  /\ pc = "call" /\ wq = << >> /\ fn = "phasePedestrianIfRequested"
  /\ IF skipPedestrian
       THEN /\ Return
            /\ UNCHANGED <<wq, remaining, i, currentPhase>>
            /\ UNCHANGED <<hist, pedRuns, ticks>>
       ELSE /\ currentPhase' = IF variant = "main" THEN "PHASE_PED_GREEN"
                                                   ELSE currentPhase
            /\ wq' = setPedestrianGreenState
            /\ remaining' = PED_TIME_SEC
            /\ pc' = "dwell"
            /\ i' = 0
            /\ lp' = lp
            /\ hist' = Entered("PHASE_PED_GREEN")
            /\ pedRuns' = IF rec = "ped" THEN cap2(pedRuns + 1) ELSE pedRuns
            /\ ticks' = 0
  /\ UNCHANGED <<variant, out, trafficCountNS, trafficCountEW, pedRequest,
                 lastNsBtnState, lastEwBtnState, lastPedBtnState>>
  /\ evIP' = 0 /\ evVeh' = 0
  /\ UNCHANGED <<redSeen, evG, evAfter, rec, ret>>
  /\ UNCHANGED <<raw, entry, nsEv, ewEv>>

\* phasePedestrianIfRequested() after its dwell loop: the closing writes
PedestrianStop ==
  /\ pc = "dwell" /\ wq = << >> /\ fn = "phasePedestrianIfRequested"
  /\ remaining = 0
  /\ wq' = pedestrianEndWrites
  /\ pc' = "pedEnd"
  /\ UNCHANGED <<variant, lp, remaining, i, out, currentPhase,
                 trafficCountNS, trafficCountEW, pedRequest,
                 lastNsBtnState, lastEwBtnState, lastPedBtnState>>
  /\ UNCHANGED ghost
  /\ UNCHANGED ghost2

\* phasePedestrianIfRequested(): pedRequest = false, and return
PedestrianEnd ==
  /\ pc = "pedEnd" /\ wq = << >>
  /\ pedRequest' = pedRequestAfterPhase
  /\ Return
  /\ UNCHANGED <<variant, wq, remaining, i, out, currentPhase,
                 trafficCountNS, trafficCountEW,
                 lastNsBtnState, lastEwBtnState, lastPedBtnState>>
  /\ UNCHANGED ghost
  /\ UNCHANGED ghost2

Next ==
  \/ Setup
  \/ DigitalWrite
  \/ Sample
  \/ PhaseNsGreen
  \/ PhaseNsGreenEnd
  \/ PhaseNsYellow
  \/ PhaseNsYellowEnd
  \/ PhaseEwGreen
  \/ PhaseEwGreenEnd
  \/ PhaseEwYellow
  \/ PhaseEwYellowEnd
  \/ PhasePedestrianIfRequested
  \/ PedestrianStop
  \/ PedestrianEnd

Spec == Init /\ [][Next]_vars

\* The same program with the pedestrian press history recorded.
InitPed ==
  /\ Start
  /\ variant \in Variants
  /\ rec = "ped"

SpecPed == InitPed /\ [][Next]_vars

\* loop() is called again whenever it returns and every delay() ends: the
\* running function always takes its next step.
\* The same program with the dwell history recorded.
InitDwell ==
  /\ Start
  /\ variant \in Variants
  /\ rec = "dwell"

SpecDwell == InitDwell /\ [][Next]_vars

\* main.cpp with the traffic press history recorded.
InitPress ==
  /\ Start
  /\ variant = "main"
  /\ rec = "press"

SpecPress == InitPress /\ [][Next]_vars

SpecFair == Init /\ [][Next]_vars /\ WF_vars(Next)

\* ------------------------------------------- the green-time functions alone
\* main.cpp's computeNsGreenSeconds and computeEwGreenSeconds applied to
\* every pair of counter values up to MaxArg.
InitGreen ==
  /\ variant = "main"
  /\ pc = "computeNs"
  /\ trafficCountNS \in 0..MaxArg
  /\ trafficCountEW \in 0..MaxArg
  /\ lp = 1 /\ wq = << >> /\ remaining = 0 /\ i = 0
  /\ out = [p \in Pins |-> LOW]
  /\ currentPhase = "PHASE_NS_GREEN"
  /\ pedRequest = FALSE
  /\ lastNsBtnState = HIGH /\ lastEwBtnState = HIGH /\ lastPedBtnState = HIGH
  /\ hist = << >> /\ redSeen = FALSE
  /\ evG = 0 /\ evAfter = FALSE /\ pedRuns = 0 /\ evIP = 0 /\ evVeh = 0
  /\ rec = "none"
  /\ ret = << >>
  /\ raw = <<HIGH, HIGH, HIGH>>
  /\ ticks = 0 /\ entry = 0 /\ nsEv = 0 /\ ewEv = 0

ComputeNs ==
  /\ pc = "computeNs"
  /\ ret' = << computeNsGreenSeconds >>
  /\ pc' = "computeEw"
  /\ UNCHANGED <<variant, lp, wq, remaining, i, out, currentPhase,
                 trafficCountNS, trafficCountEW, pedRequest,
                 lastNsBtnState, lastEwBtnState, lastPedBtnState>>
  /\ UNCHANGED <<hist, redSeen, evG, evAfter, pedRuns, evIP, evVeh, rec>>
  /\ UNCHANGED ghost2

ComputeEw ==
  /\ pc = "computeEw"
  /\ ret' = Append(ret, computeEwGreenSeconds)
  /\ pc' = "computed"
  /\ UNCHANGED <<variant, lp, wq, remaining, i, out, currentPhase,
                 trafficCountNS, trafficCountEW, pedRequest,
                 lastNsBtnState, lastEwBtnState, lastPedBtnState>>
  /\ UNCHANGED <<hist, redSeen, evG, evAfter, pedRuns, evIP, evVeh, rec>>
  /\ UNCHANGED ghost2

NextGreen == ComputeNs \/ ComputeEw

SpecGreen == InitGreen /\ [][NextGreen]_vars

\* =================================================================== claims
\* the phase entered before it
before == IF Len(hist) < 2 THEN "none" ELSE hist[1]

NsGo == out["NS_GREEN"] \/ out["NS_YELLOW"]
EwGo == out["EW_GREEN"] \/ out["EW_YELLOW"]

\* an output of the set S goes from off to on in this step
GoesOn(S) == \E p \in S : ~out[p] /\ out'[p]

\* the running function is at an insertion point: it is about to test the latch
AtInsertion == pc = "call" /\ wq = << >> /\ fn = "phasePedestrianIfRequested"

\* this step enters the Pedestrian phase
EntersPedestrian == hist' # hist /\ hist'[Len(hist')] = "PHASE_PED_GREEN"

\* C1: in every state, also between two writes of a transition, at most one
\* vehicle axis has green or yellow on, and while an axis has green or
\* yellow on the other axis has red on and neither green nor yellow.
C1_OneAxisAtATime ==
  /\ ~(NsGo /\ EwGo)
  /\ NsGo => (out["EW_RED"] /\ ~EwGo)
  /\ EwGo => (out["NS_RED"] /\ ~NsGo)

\* a state in the middle of leaving EW-yellow: yellow still on, writes pending
C1_Witness ==
  /\ out["EW_YELLOW"] /\ out["EW_RED"] /\ out["NS_RED"]
  /\ wq # << >> /\ active = "PHASE_NS_GREEN"

\* C2: while pedestrian green is on, both vehicle axes have red on and no
\* vehicle green or yellow is on; and no vehicle green or yellow goes on in
\* a step that starts with pedestrian green on.
C2_PedestrianExclusive ==
  /\ [](out["PED_GREEN"] => AllVehicleRed(out))
  /\ [][out["PED_GREEN"] =>
          ~GoesOn({"NS_GREEN", "NS_YELLOW", "EW_GREEN", "EW_YELLOW"})]_vars

\* pedestrian green on in the middle of the Pedestrian dwell
C2_Witness ==
  /\ out["PED_GREEN"] /\ active = "PHASE_PED_GREEN"
  /\ pc = "dwell" /\ remaining = 4

\* C3: whenever a green, yellow or pedestrian-green output goes on, an output
\* state with both vehicle reds on and all vehicle greens and yellows off
\* has occurred since such an output last went on.
C3_ThroughAllRed == [][GoesOn(Assertive) => redSeen]_vars

\* NS-yellow has gone on in the transition out of NS-green
C3_Witness ==
  /\ out["NS_YELLOW"] /\ ~out["NS_GREEN"] /\ wq = << >>
  /\ active = "PHASE_NS_YELLOW" /\ remaining = YELLOW_TIME_SEC

\* the phase that may be entered after `prev`, which followed `prev2`
Follows(prev2, prev, new) ==
  CASE prev = "none"            -> new = "PHASE_NS_GREEN"
    [] prev = "PHASE_NS_GREEN"  -> new = "PHASE_NS_YELLOW"
    [] prev = "PHASE_EW_GREEN"  -> new = "PHASE_EW_YELLOW"
    [] prev = "PHASE_NS_YELLOW" -> new \in {"PHASE_EW_GREEN", "PHASE_PED_GREEN"}
    [] prev = "PHASE_EW_YELLOW" -> new \in {"PHASE_NS_GREEN", "PHASE_PED_GREEN"}
    [] prev = "PHASE_PED_GREEN" ->
          \/ prev2 = "PHASE_NS_YELLOW" /\ new = "PHASE_EW_GREEN"
          \/ prev2 = "PHASE_EW_YELLOW" /\ new = "PHASE_NS_GREEN"

\* C4: the phases are entered in the cyclic order NS-green, NS-yellow,
\* [Pedestrian], EW-green, EW-yellow, [Pedestrian], starting with NS-green;
\* in main.cpp currentPhase is the phase entered last.
C4_CyclicOrder ==
  /\ [][hist' # hist => Follows(before, active, hist'[Len(hist')])]_vars
  /\ []((variant = "main" /\ hist # << >>) => currentPhase = active)

\* NS-green entered after a Pedestrian phase at the second insertion point
C4_Witness == hist = <<"PHASE_PED_GREEN", "PHASE_NS_GREEN">> /\ pc = "dwell"

\* C5: the Pedestrian phase is entered exactly by the step taken at an
\* insertion point with the latch true; the insertion points are the
\* returns of the two yellow phases; a step that sets the latch enters no
\* phase and leaves currentPhase and the running dwell alone.
C5_InsertionPoint ==
  /\ [][EntersPedestrian <=> (AtInsertion /\ pedRequest)]_vars
  /\ [][(AtInsertion /\ ~pedRequest) =>
          (hist' = hist /\ pc' = "call"
           /\ fn' \in {"phaseNsGreen", "phaseEwGreen"})]_vars
  /\ [](AtInsertion => active \in {"PHASE_NS_YELLOW", "PHASE_EW_YELLOW"})
  /\ [][(active \in {"PHASE_NS_YELLOW", "PHASE_EW_YELLOW"}
          /\ pc = "dwell" /\ pc' = "call") => AtInsertion']_vars
  /\ [][(~pedRequest /\ pedRequest') =>
          (hist' = hist /\ currentPhase' = currentPhase
           /\ pc' = pc /\ lp' = lp)]_vars

\* the Pedestrian dwell entered at the insertion point after EW-yellow
C5_Witness ==
  /\ hist = <<"PHASE_EW_YELLOW", "PHASE_PED_GREEN">>
  /\ pc = "dwell" /\ pedRequest

\* C6: when exactly one pedestrian press event was sampled in the NS-green
\* dwell and none since, the Pedestrian phase is the phase entered after
\* NS-yellow, it is the only one of the cycle (none at the insertion point
\* after EW-yellow), and the latch is false from its end on.
C6_SinglePress ==
  (evG = 1 /\ ~evAfter) =>
    /\ (lp = 3 /\ pc # "call") =>
          (pedRuns = 1 /\ hist = <<"PHASE_NS_YELLOW", "PHASE_PED_GREEN">>)
    /\ (lp = 4 /\ pc = "call") =>
          hist = <<"PHASE_NS_YELLOW", "PHASE_PED_GREEN">>
    /\ (lp \in 4..6 \/ (lp = 1 /\ pc = "call")) =>
          (pedRuns = 1 /\ ~pedRequest)

\* the cycle is over: the second insertion point has been passed
C6_Witness ==
  /\ evG = 1 /\ ~evAfter /\ pedRuns = 1
  /\ lp = 1 /\ pc = "call" /\ active = "PHASE_EW_YELLOW"

\* C7 as stated: two or more press events sampled since the last insertion
\* point make the Pedestrian phase run at the next one.
C7_AnyPresses == [][(AtInsertion /\ evIP >= 2) => EntersPedestrian]_vars

\* C7: one press event or several, sampled in vehicle-phase dwells since
\* the last insertion point, leave the latch true, make the Pedestrian
\* phase run at the next insertion point, and the phase after it is a
\* green phase (one Pedestrian phase, not two).
C7_IdempotentLatch ==
  /\ [](evVeh >= 1 => pedRequest)
  /\ [][(AtInsertion /\ evVeh >= 1) => EntersPedestrian]_vars
  /\ [][(active = "PHASE_PED_GREEN" /\ pc = "pedEnd" /\ pc' = "call") =>
          fn' \in {"phaseNsGreen", "phaseEwGreen"}]_vars

\* two or more press events were sampled in the vehicle phases before this
\* insertion point
C7_Witness == AtInsertion /\ evVeh = 2 /\ evIP = 2

VehiclePhases == {"PHASE_NS_GREEN", "PHASE_NS_YELLOW",
                  "PHASE_EW_GREEN", "PHASE_EW_YELLOW"}

\* C8: the latch goes from true to false only at the end of a Pedestrian
\* phase, and a latch that is true in a vehicle phase leads to a
\* Pedestrian dwell.
C8_RequestServed ==
  /\ [][(pedRequest /\ ~pedRequest') =>
          (active = "PHASE_PED_GREEN" /\ pc = "pedEnd")]_vars
  /\ ((pedRequest /\ active \in VehiclePhases)
        ~> (active = "PHASE_PED_GREEN" /\ pc = "dwell"))

\* a request pending in the middle of the EW-green dwell
C8_Witness ==
  /\ pedRequest /\ active = "PHASE_EW_GREEN"
  /\ pc = "dwell" /\ remaining = 5

\* C9: the NS-green dwell and the EW-green dwell each run infinitely often.
C9_NoStarvation ==
  /\ []<>(active = "PHASE_NS_GREEN" /\ pc = "dwell")
  /\ []<>(active = "PHASE_EW_GREEN" /\ pc = "dwell")

\* both counters as high as they get, and a request pending
C9_Witness ==
  /\ pedRequest
  /\ trafficCountNS = (IF variant = "main" THEN MaxCount ELSE MAX_TRAFFIC_COUNT)
  /\ trafficCountEW = (IF variant = "main" THEN MaxCount ELSE MAX_TRAFFIC_COUNT)

\* the breakpoints: 0..4 -> 10, 5..9 -> 20, 10..14 -> 30, 15.. -> 40
GreenTable(c) ==
  IF c <= 4 THEN 10 ELSE IF c <= 9 THEN 20 ELSE IF c <= 14 THEN 30 ELSE 40

\* C10: main.cpp's computeNsGreenSeconds and computeEwGreenSeconds return
\* the value of the breakpoint table, agree on equal counters, and do not
\* decrease as the counter grows.
C10_GreenSeconds ==
  pc = "computed" =>
    /\ ret[1] = GreenTable(trafficCountNS)
    /\ ret[2] = GreenTable(trafficCountEW)
    /\ trafficCountNS = trafficCountEW => ret[1] = ret[2]
    /\ trafficCountNS <= trafficCountEW => ret[1] <= ret[2]
    /\ trafficCountEW <= trafficCountNS => ret[2] <= ret[1]

\* both functions applied, one counter in the top tier, one at a breakpoint
C10_Witness ==
  /\ pc = "computed" /\ trafficCountNS = 15 /\ trafficCountEW = 9
  /\ ret = <<40, 20>>

\* ------------------------------------------------------------ C11 .. C20
Greens == {"phaseNsGreen", "phaseEwGreen"}
Yellows == {"phaseNsYellow", "phaseEwYellow"}

\* the running function is about to call readButtons
Sampling == pc = "dwell" /\ wq = << >> /\ remaining > 0

\* this step is a readButtons call in which the button's press event fires
NsEvent == Sampling /\ lastNsBtnState = HIGH /\ raw'[1] = LOW
EwEvent == Sampling /\ lastEwBtnState = HIGH /\ raw'[2] = LOW
PedEvent == Sampling /\ lastPedBtnState = HIGH /\ raw'[3] = LOW

\* main_withlcd.cpp's tiers: 0..3 -> 10, 4..7 -> 20, 8.. -> 30
GreenTableLcd(c) == IF c <= 3 THEN 10 ELSE IF c <= 7 THEN 20 ELSE 30

\* C11: throughout a green dwell the seconds completed and the seconds left
\* add up to the green time of the axis's counter at entry, so the dwell
\* ends after exactly that many seconds whatever the buttons do meanwhile.
C11_GreenDwell ==
  (pc = "dwell" /\ fn \in Greens) =>
    /\ ticks + remaining = (IF variant = "main" THEN GreenTable(entry)
                                                ELSE GreenTableLcd(entry))
    /\ entry = 0 => ticks + remaining = 10
    /\ entry = 6 => ticks + remaining = 20

\* an NS-green dwell entered with counter 6 has ended after 20 seconds, a
\* pedestrian press having been sampled on the way
C11_Witness ==
  /\ variant = "main" /\ fn = "phaseNsGreen" /\ pc = "dwell"
  /\ remaining = 0 /\ entry = 6 /\ ticks = 20 /\ pedRequest

\* C12: in main.cpp each counter equals the number of press events of its
\* button sampled, since the axis's green dwell last ended, in a phase in
\* which the axis is red (the other axis's green or yellow, or Pedestrian).
C12_CountsPresses ==
  variant = "main" => (trafficCountNS = nsEv /\ trafficCountEW = ewEv)

\* three NS presses counted by the middle of a Pedestrian phase
C12_Witness ==
  /\ variant = "main" /\ active = "PHASE_PED_GREEN" /\ pc = "dwell"
  /\ nsEv = 3 /\ trafficCountNS = 3 /\ ewEv = 2

\* C13: the stored previous level of each button is the level read by the
\* latest sample; a counter goes up, by one, and the latch goes on, only in
\* a sample that reads LOW after a sample that read HIGH.
C13_EdgeDetection ==
  /\ [](/\ lastNsBtnState = raw[1]
        /\ lastEwBtnState = raw[2]
        /\ lastPedBtnState = raw[3])
  /\ [][trafficCountNS' > trafficCountNS =>
          (NsEvent /\ trafficCountNS' = trafficCountNS + 1)]_vars
  /\ [][trafficCountEW' > trafficCountEW =>
          (EwEvent /\ trafficCountEW' = trafficCountEW + 1)]_vars
  /\ [][(~pedRequest /\ pedRequest') => PedEvent]_vars

\* the EW button is held after one counted press; the pedestrian button
\* was pressed and released
C13_Witness ==
  /\ trafficCountEW = 1 /\ lastEwBtnState = LOW /\ hist = <<"PHASE_NS_GREEN">>
  /\ remaining = 5 /\ pedRequest /\ lastPedBtnState = HIGH

\* C14: in main.cpp an axis's counter does not change during its own green
\* and yellow dwells and is 0 in its own yellow phase; a sample in which
\* only the own axis's press event fires changes no counter, not the latch
\* and not the phase.
C14_OwnPhaseIgnored ==
  /\ []((variant = "main" /\ active = "PHASE_NS_YELLOW") => trafficCountNS = 0)
  /\ []((variant = "main" /\ active = "PHASE_EW_YELLOW") => trafficCountEW = 0)
  /\ [][(variant = "main" /\ Sampling
          /\ active \in {"PHASE_NS_GREEN", "PHASE_NS_YELLOW"}) =>
          trafficCountNS' = trafficCountNS]_vars
  /\ [][(variant = "main" /\ Sampling
          /\ active \in {"PHASE_EW_GREEN", "PHASE_EW_YELLOW"}) =>
          trafficCountEW' = trafficCountEW]_vars
  /\ [][(variant = "main" /\ ~PedEvent /\
          \/ (NsEvent /\ ~EwEvent
              /\ active \in {"PHASE_NS_GREEN", "PHASE_NS_YELLOW"})
          \/ (EwEvent /\ ~NsEvent
              /\ active \in {"PHASE_EW_GREEN", "PHASE_EW_YELLOW"})) =>
          UNCHANGED <<trafficCountNS, trafficCountEW, pedRequest,
                      currentPhase, hist>>]_vars

\* the NS button was pressed in the first NS-green dwell: nothing counted
C14_Witness ==
  /\ variant = "main" /\ hist = <<"PHASE_NS_GREEN">> /\ pc = "dwell"
  /\ lastNsBtnState = LOW /\ trafficCountNS = 0 /\ remaining = 5

\* C15: a yellow dwell runs 3 seconds and a Pedestrian dwell 8; a sample
\* leaves the total of the running dwell alone, and one in which the
\* pedestrian press event fires enters no phase.
C15_NoPreemption ==
  /\ []((pc = "dwell" /\ fn \in Yellows) => ticks + remaining = 3)
  /\ []((pc = "dwell" /\ fn = "phasePedestrianIfRequested") =>
          ticks + remaining = 8)
  /\ [][Sampling => (ticks' + remaining' = ticks + remaining
                     /\ remaining' >= remaining - 1)]_vars
  /\ [][PedEvent => (hist' = hist /\ currentPhase' = currentPhase
                     /\ pc' = pc /\ lp' = lp)]_vars

\* a request is pending in the last second of a yellow dwell
C15_Witness ==
  /\ pc = "dwell" /\ fn = "phaseEwYellow" /\ pedRequest
  /\ ticks = 2 /\ remaining = 1 /\ wq = << >>

\* C16: the step that ends a green dwell sets that axis's counter to 0 and
\* leaves the other counter and the latch alone; every other step that is
\* not a readButtons call (phase entries, the other phases' ends, writes)
\* changes no counter.
C16_ResetFrame ==
  [][IF pc = "dwell" /\ pc' = "call" /\ fn = "phaseNsGreen"
       THEN /\ trafficCountNS' = 0
            /\ UNCHANGED <<trafficCountEW, pedRequest>>
     ELSE IF pc = "dwell" /\ pc' = "call" /\ fn = "phaseEwGreen"
       THEN /\ trafficCountEW' = 0
            /\ UNCHANGED <<trafficCountNS, pedRequest>>
     ELSE IF Sampling
       THEN TRUE
     ELSE UNCHANGED <<trafficCountNS, trafficCountEW>>]_vars

\* EW-green has just ended with NS presses counted and a request pending
C16_Witness ==
  /\ pc = "call" /\ fn = "phaseEwYellow" /\ active = "PHASE_EW_GREEN"
  /\ trafficCountEW = 0 /\ trafficCountNS = 2 /\ pedRequest

\* the colour outputs of a head that are on
On(head) == {p \in head : out[p]}

\* C17: after every single write, each signal head (NS vehicle, EW vehicle,
\* pedestrian) has at most one of its colour outputs on.
C17_OneColourPerHead ==
  /\ Cardinality(On({"NS_RED", "NS_YELLOW", "NS_GREEN"})) <= 1
  /\ Cardinality(On({"EW_RED", "EW_YELLOW", "EW_GREEN"})) <= 1
  /\ Cardinality(On({"PED_RED", "PED_GREEN"})) <= 1

\* the outputs a phase stands for: its own green or yellow, red elsewhere
Projection(phase) ==
  [p \in Pins |->
     CASE phase = "PHASE_NS_GREEN"  -> p \in {"NS_GREEN", "EW_RED", "PED_RED"}
       [] phase = "PHASE_NS_YELLOW" -> p \in {"NS_YELLOW", "EW_RED", "PED_RED"}
       [] phase = "PHASE_EW_GREEN"  -> p \in {"NS_RED", "EW_GREEN", "PED_RED"}
       [] phase = "PHASE_EW_YELLOW" -> p \in {"NS_RED", "EW_YELLOW", "PED_RED"}
       [] phase = "PHASE_PED_GREEN" -> p \in {"NS_RED", "EW_RED", "PED_GREEN"}]

\* C18: in main.cpp, whenever readButtons is about to be called the outputs
\* are the projection of currentPhase, and isNsRed / isEwRed say whether the
\* NS / EW red output is on.
C18_OutputsFollowPhase ==
  (variant = "main" /\ Sampling) =>
    /\ out = Projection(currentPhase)
    /\ isNsRed <=> out["NS_RED"]
    /\ isEwRed <=> out["EW_RED"]

\* sampling in an EW-green dwell that follows a Pedestrian phase
C18_Witness ==
  /\ variant = "main" /\ Sampling
  /\ hist = <<"PHASE_PED_GREEN", "PHASE_EW_GREEN">>

\* C19: in main_withlcd.cpp both counters stay in 0..MAX_TRAFFIC_COUNT; a
\* press event adds one below the maximum and nothing at it, in every
\* phase; a green dwell is entered with 10, 20 or 30 seconds.
C19_Clamped ==
  /\ [](variant = "lcd" =>
          (/\ trafficCountNS \in 0..MAX_TRAFFIC_COUNT
           /\ trafficCountEW \in 0..MAX_TRAFFIC_COUNT))
  /\ [][(variant = "lcd" /\ NsEvent) =>
          trafficCountNS' = (IF trafficCountNS < 10 THEN trafficCountNS + 1
                                                    ELSE 10)]_vars
  /\ [][(variant = "lcd" /\ EwEvent) =>
          trafficCountEW' = (IF trafficCountEW < 10 THEN trafficCountEW + 1
                                                    ELSE 10)]_vars
  /\ [][(variant = "lcd" /\ pc = "call" /\ pc' = "dwell" /\ fn \in Greens) =>
          remaining' \in {10, 20, 30}]_vars

\* both counters at the maximum and both buttons just pressed again
C19_Witness ==
  /\ variant = "lcd" /\ Sampling
  /\ trafficCountNS = MAX_TRAFFIC_COUNT /\ trafficCountEW = MAX_TRAFFIC_COUNT
  /\ lastNsBtnState = HIGH /\ lastEwBtnState = HIGH

\* C20: the latch is false when a Pedestrian phase returns, and when all
\* press events since the last insertion point were sampled in the
\* Pedestrian dwell the next insertion point enters no Pedestrian phase.
C20_AbsorbedPress ==
  /\ [][(pc = "pedEnd" /\ pc' = "call") => ~pedRequest']_vars
  /\ []((evIP >= 1 /\ evVeh = 0 /\ pc # "dwell" /\ pc # "pedEnd")
          => ~pedRequest)
  /\ [][(AtInsertion /\ evIP >= 1 /\ evVeh = 0) =>
          (~EntersPedestrian /\ pc' = "call" /\ fn' \in Greens)]_vars

\* at the next insertion point, after presses in the Pedestrian dwell only
C20_Witness == AtInsertion /\ evIP = 2 /\ evVeh = 0

====
